---- MODULE Spec2Model ----
(***************************************************************************)
(* State-machine model of imqueue/pg-pubsub: the PgPubSub facade           *)
(* (src/src/constants.ts), the inter-process channel lock PgIpLock         *)
(* (src/src/PgIpLock.ts), the NoLock variant (src/src/NoLock.ts) and the   *)
(* part of the PostgreSQL server they talk to: the lock tables, the        *)
(* activity view, LISTEN subscriptions and NOTIFY fan-out.                 *)
(*                                                                         *)
(* Every handler is one action: a handler's awaits are run to completion   *)
(* in program order, which is one of the schedules the event loop allows.  *)
(***************************************************************************)
EXTENDS Integers, Sequences, FiniteSets, TLC

VARIABLES
    opts,        \* opts[p]: PgPubSub.options of process p's facade
    status,      \* status[p]: "new", "up", "retrying", "closed", "closedTimer"
                 \* (closed with a retry timer pending) or "exited"
    retry,       \* retry[p]: PgPubSub.retry
    client,      \* client[p]: listeners that p's facade has on its pgClient
                 \* and the retry timers that reconnect() has armed
    instances,   \* instances[p]: PgIpLock.instances, the roster of process p
    orphans,     \* orphans[p]: lock objects that left PgPubSub.locks without
                 \* destroy(), in the order in which they left
    uuids,       \* uuids[p]: number of application names p has generated
    appName,     \* appName[p]: pgClient.appName
    processId,   \* processId[p]: PgPubSub.processId (server side pid)
    locks,       \* locks[p]: PgPubSub.locks, in key insertion order
    activity,    \* pg_stat_activity: application names of live backends
    subs,        \* subs[p]: channels the server has p's connection LISTEN to
    inbox,       \* inbox[p]: notifications received and not yet dispatched
    lockTable,   \* rows of <schema>.lock, the channel-lock table
    uniqueTable, \* rows of <schema>_unique.lock, the unique-key lock table
    uniqueLocks, \* uniqueLocks[p][k]: acquired flag of p's lock with key k
    ev,          \* the handler that ran last and its input
    out          \* queries issued and events emitted by that handler

vars == <<opts, status, retry, client, instances, orphans, uuids, appName, processId, locks, activity, subs,
          inbox, lockTable, uniqueTable, uniqueLocks, ev, out>>

(***************************************************************************)
(* Bounds                                                                  *)
(***************************************************************************)
MaxLost == 1
MaxInbox == 1
MaxRetry == 3
MaxConnects == 2
MaxAttach == 2
MaxOrphans == 1

Procs == {"A", "B"}
UniqueKeys == {"k1", "k2"}

(***************************************************************************)
(* Channel names.  A name is a sequence of tokens; the lock prefix         *)
(* `__PgIpLock__:` is one token, so that RX_LOCK_CHANNEL, the prefix scrub *)
(* and the mangling are computed as the code computes them.                *)
(***************************************************************************)
LOCK_TAG == "__PgIpLock__:"

RX_LOCK_CHANNEL(ch) == Len(ch) > 0 /\ Head(ch) = LOCK_TAG

RECURSIVE StripLockPrefix(_)
StripLockPrefix(ch) ==
    IF RX_LOCK_CHANNEL(ch) THEN StripLockPrefix(Tail(ch)) ELSE ch

LockChannel(channel) == <<LOCK_TAG>> \o StripLockPrefix(channel)

UserChannels == { <<"C">> }
Channels == UserChannels \cup { LockChannel(c) : c \in UserChannels }

\* a registry has at most one entry per channel name
MaxLocks == Cardinality(Channels)

(***************************************************************************)
(* Codec                                                                   *)
(***************************************************************************)
NoArg == [t |-> "none", v |-> ""]
Number(n) == [t |-> "number", v |-> n]
JsonTrue == [t |-> "boolean", v |-> "true"]
JsonOne == [t |-> "number", v |-> "1"]
JsonObjAB == [t |-> "object", v |-> "a:b"]
JsonEmptyObj == [t |-> "object", v |-> ""]

Payloads == { "true", "1", "{\"a\":\"b\"}", "{bad" }

unpack(input) ==
    CASE input = "true" -> JsonTrue
      [] input = "1" -> JsonOne
      [] input = "{\"a\":\"b\"}" -> JsonObjAB
      [] OTHER -> JsonEmptyObj

pack(value) ==
    CASE value = JsonTrue -> "true"
      [] value = JsonOne -> "1"
      [] value = JsonObjAB -> "{\"a\":\"b\"}"
      [] value = JsonEmptyObj -> "{}"
      [] OTHER -> "null"

(***************************************************************************)
(* Records of the trace of one handler                                     *)
(***************************************************************************)
Query(name, ch) == [k |-> "query", name |-> name, ch |-> ch, arg |-> NoArg]
Emit(name, ch, arg) == [k |-> "emit", name |-> name, ch |-> ch, arg |-> arg]
ChannelsEmit(ch, arg) ==
    [k |-> "channels.emit", name |-> "channel", ch |-> ch, arg |-> arg]
\* a call of a method of the facade or of the transport
Call(name, ch) == [k |-> "call", name |-> name, ch |-> ch, arg |-> NoArg]
\* logger.error(err)
Log(ch) == [k |-> "log", name |-> "error", ch |-> ch, arg |-> NoArg]
\* the handler throws, or the promise it returns is rejected
Throw(name, ch) == [k |-> "throw", name |-> name, ch |-> ch, arg |-> NoArg]
\* process.exit(code)
Exit(code) == [k |-> "exit", name |-> "exit", ch |-> << >>, arg |-> Number(code)]

NoChannel == << >>
NoApp == << >>
App(p, n) == <<p, n>>
NoNotification == [channel |-> NoChannel, payload |-> "", processId |-> NoApp]
Event(op, p, ch, n) == [op |-> op, p |-> p, ch |-> ch, n |-> n]

(***************************************************************************)
(* Database                                                                *)
(***************************************************************************)
\* mutant: the owner is never found alive
deadlock_check_NeverLocked(act, old_app) == FALSE

\* deadlock_check(old_app, new_app) raises LOCKED: a backend of the activity
\* view bears old_app
deadlock_check(act, old_app) == old_app \in act

\* mutant: the row is written without the name of the connection
acquireChannelLock_NoOwner(table, act, ch, app) ==
    LET conflict == { r \in table : r.channel = ch }
        row == [channel |-> ch, app |-> NoApp]
    IN  IF conflict = {}
        THEN [ok |-> TRUE, table |-> table \cup {row}]
        ELSE IF \E r \in conflict : deadlock_check(act, r.app)
             THEN [ok |-> FALSE, table |-> table]
             ELSE [ok |-> TRUE, table |-> (table \ conflict) \cup {row}]

\* mutant: a plain INSERT, without the primary key and its ON CONFLICT clause
acquireChannelLock_PlainInsert(table, act, ch, app) ==
    [ok |-> TRUE, table |-> table \cup {[channel |-> ch, app |-> app]}]

acquireChannelLock(table, act, ch, app) ==
    LET conflict == { r \in table : r.channel = ch }
        row == [channel |-> ch, app |-> app]
    IN  IF conflict = {}
        THEN [ok |-> TRUE, table |-> table \cup {row}]
        ELSE IF \E r \in conflict : deadlock_check(act, r.app)
             THEN [ok |-> FALSE, table |-> table]
             ELSE [ok |-> TRUE, table |-> (table \ conflict) \cup {row}]

acquireUniqueLock(table, act, id, ch, app) ==
    LET conflict == { r \in table : r.id = id }
        row == [id |-> id, channel |-> ch, app |-> app]
    IN  IF conflict = {}
        THEN [ok |-> TRUE, table |-> table \cup {row}]
        ELSE IF \E r \in conflict : deadlock_check(act, r.app)
             THEN [ok |-> FALSE, table |-> table]
             ELSE [ok |-> TRUE,
                   table |-> (table \ conflict) \cup
                       { [id |-> r.id, channel |-> r.channel, app |-> app]
                           : r \in conflict }]

\* NOTIFY fan-out: every connection that LISTENs to ch receives n
Receivers(sub, st, ch) == { q \in Procs : st[q] = "up" /\ ch \in sub[q] }

Fanout(box, sub, st, n) ==
    [q \in Procs |->
        IF q \in Receivers(sub, st, n.channel) THEN Append(box[q], n)
        ELSE box[q]]

RoomFor(box, sub, st, ch) ==
    \A q \in Receivers(sub, st, ch) : Len(box[q]) < MaxInbox

(***************************************************************************)
(* Lock objects.  A registry entry is [key, lock]; PgPubSub.locks keeps    *)
(* its keys in insertion order.                                            *)
(***************************************************************************)
NoLock ==
    [kind |-> "NoLock", channel |-> NoChannel, acquired |-> TRUE,
     notifyHandler |-> FALSE, handler |-> 0, timer |-> 0]

\* new PgIpLock(channel, options): not acquired.
\* notifyHandler: the field is set; handler: the number of times it is
\* attached to the connection; timer: the number of acquire intervals armed
PgIpLock(channel) ==
    [kind |-> "PgIpLock", channel |-> LockChannel(channel),
     acquired |-> FALSE, notifyHandler |-> FALSE, handler |-> 0,
     timer |-> 0]

isAcquired(l) == IF l.kind = "NoLock" THEN TRUE ELSE l.acquired

HasLock(reg, key) == \E i \in 1..Len(reg) : reg[i].key = key
LockIndex(reg, key) == CHOOSE i \in 1..Len(reg) : reg[i].key = key
RemoveAt(seq, i) == SubSeq(seq, 1, i - 1) \o SubSeq(seq, i + 1, Len(seq))

(***************************************************************************)
(* A handler runs on a context S: the facade's registry, the connection's  *)
(* identity, the database and the trace of the handler so far.             *)
(***************************************************************************)
Context(p, box) ==
    [p |-> p, options |-> opts[p], appName |-> appName[p],
     processId |-> processId[p], locks |-> locks[p], table |-> lockTable,
     activity |-> activity, subs |-> subs, status |-> status, box |-> box,
     retry |-> retry[p], client |-> client[p], instances |-> instances[p],
     orphans |-> orphans[p], out |-> << >>]

\* pgClient.query() is rejected when the connection is not established
Queryable(S) == S.status[S.p] = "up"

\* the roster holds lock objects, named by their registry key
InRoster(roster, key) == \E k \in 1..Len(roster) : roster[k] = key

\* instances.findIndex(lock => lock === this): -1 when absent
FindIndex(roster, key) ==
    IF InRoster(roster, key)
    THEN CHOOSE k \in 1..Len(roster) :
            roster[k] = key /\ \A j \in 1..(k - 1) : roster[j] # key
    ELSE -1

\* instances.splice(index, 1); index -1 counts from the end
Splice(roster, index) ==
    IF roster = << >> THEN roster
    ELSE IF index = -1 THEN RemoveAt(roster, Len(roster))
    ELSE RemoveAt(roster, index)

\* mutant: init() pushes the lock without looking for it in the roster
PgIpLock_init_AlwaysPush(S, i) ==
    LET l == S.locks[i].lock
    IN  IF l.kind = "NoLock" THEN S
        ELSE IF ~Queryable(S)
        THEN [S EXCEPT !.out = @ \o <<Throw("init", l.channel)>>]
        ELSE [S EXCEPT !.locks[i].lock.handler =
                           IF l.notifyHandler THEN @ + 1 ELSE @,
                       !.instances = Append(@, S.locks[i].key),
                       !.locks[i].lock.timer = IF @ = 0 THEN 1 ELSE @,
                       !.subs[S.p] = @ \cup {l.channel},
                       !.out = @ \o <<Query("LISTEN", l.channel)>>]

\* mutant: init() arms an acquire timer whether one is armed or not
PgIpLock_init_ArmAlways(S, i) ==
    LET l == S.locks[i].lock
    IN  IF l.kind = "NoLock" THEN S
        ELSE IF ~Queryable(S)
        THEN [S EXCEPT !.out = @ \o <<Throw("init", l.channel)>>]
        ELSE [S EXCEPT !.locks[i].lock.handler =
                           IF l.notifyHandler THEN @ + 1 ELSE @,
                       !.instances = IF InRoster(@, S.locks[i].key) THEN @
                                     ELSE Append(@, S.locks[i].key),
                       !.locks[i].lock.timer = @ + 1,
                       !.subs[S.p] = @ \cup {l.channel},
                       !.out = @ \o <<Query("LISTEN", l.channel)>>]

\* PgIpLock.init(): the handler set before is attached again, roster,
\* LISTEN on the lock channel, acquire timer; the first query is not guarded,
\* so init() is rejected on a connection that is down.  The handler is
\* attached once more at every init(); the timer is armed when none is.
PgIpLock_init(S, i) ==
    LET l == S.locks[i].lock
    IN  IF l.kind = "NoLock" THEN S
        ELSE IF ~Queryable(S)
        THEN [S EXCEPT !.out = @ \o <<Throw("init", l.channel)>>]
        ELSE [S EXCEPT !.locks[i].lock.handler =
                           IF l.notifyHandler THEN @ + 1 ELSE @,
                       !.instances = IF InRoster(@, S.locks[i].key) THEN @
                                     ELSE Append(@, S.locks[i].key),
                       !.locks[i].lock.timer = IF @ = 0 THEN 1 ELSE @,
                       !.subs[S.p] = @ \cup {l.channel},
                       !.out = @ \o <<Query("LISTEN", l.channel)>>]

\* mutant: the handler is replaced, no check that one is set already
PgIpLock_onRelease_Replace(S, i) ==
    [S EXCEPT !.locks[i].lock.notifyHandler = TRUE,
              !.locks[i].lock.handler = @ + 1]

\* PgIpLock.onRelease(handler): throws when a handler is set already,
\* otherwise sets it and attaches it to the connection
PgIpLock_onRelease(S, i) ==
    LET l == S.locks[i].lock
    IN  IF l.kind = "NoLock" THEN S
        ELSE IF l.notifyHandler
        THEN [S EXCEPT !.out = @ \o <<Throw("TypeError", l.channel)>>]
        ELSE [S EXCEPT !.locks[i].lock.notifyHandler = TRUE,
                       !.locks[i].lock.handler = @ + 1]

\* mutant: the LOCKED sentinel is logged like every other error
PgIpLock_acquire_LogLocked(S, i) ==
    LET l == S.locks[i].lock
        r == acquireChannelLock(S.table, S.activity, l.channel, S.appName)
    IN  IF l.kind = "NoLock" THEN S
        ELSE IF ~Queryable(S)
        THEN [S EXCEPT !.locks[i].lock.acquired = FALSE,
                       !.out = @ \o <<Query("INSERT", l.channel),
                                      Log(l.channel)>>]
        ELSE [S EXCEPT !.locks[i].lock.acquired = r.ok,
                       !.table = r.table,
                       !.out = @ \o <<Query("INSERT", l.channel)>>
                                 \o (IF r.ok THEN << >>
                                     ELSE <<Log(l.channel)>>)]

\* PgIpLock.acquire(); its return value is the flag it leaves.  The query
\* fails with LOCKED (not logged) or, on a connection that is down, with a
\* connection error (logged)
PgIpLock_acquire(S, i) ==
    LET l == S.locks[i].lock
        r == acquireChannelLock(S.table, S.activity, l.channel, S.appName)
    IN  IF l.kind = "NoLock" THEN S
        ELSE IF ~Queryable(S)
        THEN [S EXCEPT !.locks[i].lock.acquired = FALSE,
                       !.out = @ \o <<Query("INSERT", l.channel),
                                      Log(l.channel)>>]
        ELSE [S EXCEPT !.locks[i].lock.acquired = r.ok,
                       !.table = r.table,
                       !.out = @ \o <<Query("INSERT", l.channel)>>]

\* PgIpLock.release() of a channel lock; when the DELETE is rejected the
\* assignment after it is not reached and release() is rejected
PgIpLock_release(S, i) ==
    LET l == S.locks[i].lock
        deleted == { r \in S.table : r.channel = l.channel }
        n == [channel |-> l.channel, payload |-> "1",
              processId |-> S.processId]
    IN  IF l.kind = "NoLock" \/ ~l.acquired THEN S
        ELSE IF ~Queryable(S)
        THEN [S EXCEPT !.out = @ \o <<Query("DELETE", l.channel),
                                      Throw("release", l.channel)>>]
        ELSE [S EXCEPT !.locks[i].lock.acquired = FALSE,
                       !.table = @ \ deleted,
                       !.box = IF deleted = {} THEN @
                               ELSE Fanout(@, S.subs, S.status, n),
                       !.out = @ \o <<Query("DELETE", l.channel)>>]

IsThrow(x) == x.k = "throw"

\* PgIpLock.destroy(): handler off, timer cleared, unlisten() and release()
\* started together, roster; a rejection of either skips the roster and is
\* logged
PgIpLock_destroy(S, i) ==
    LET l == S.locks[i].lock
        S1 == [S EXCEPT !.locks[i].lock.handler =
                            IF l.notifyHandler /\ @ > 0 THEN @ - 1 ELSE @,
                        !.locks[i].lock.timer = IF @ > 0 THEN @ - 1 ELSE @,
                        !.subs[S.p] = @ \ {l.channel},
                        !.out = @ \o <<Query("UNLISTEN", l.channel)>>]
        S2 == PgIpLock_release(S1, i)
    IN  IF l.kind = "NoLock" THEN S
        ELSE IF ~Queryable(S)
        THEN [S2 EXCEPT !.out = SelectSeq(@, LAMBDA x : ~IsThrow(x))
                                   \o <<Log(l.channel)>>]
        ELSE [S2 EXCEPT !.instances =
                            Splice(@, FindIndex(@, S.locks[i].key))]

(***************************************************************************)
(* PgPubSub                                                                *)
(***************************************************************************)
\* PgPubSub.createLock(channel)
createLock(S, channel) ==
    LET i == Len(S.locks) + 1
        S1 == [S EXCEPT !.locks =
                  Append(@, [key |-> channel, lock |-> PgIpLock(channel)]),
                        !.instances = Append(@, channel)]
    IN  IF S.options.singleListener
        THEN PgIpLock_onRelease(PgIpLock_init(S1, i), i)
        ELSE [S EXCEPT !.locks =
                  Append(@, [key |-> channel, lock |-> NoLock])]

\* PgPubSub.lock(channel)
lock(S, channel) ==
    IF HasLock(S.locks, channel) THEN S ELSE createLock(S, channel)

\* a lock object that leaves the registry without destroy() lives on: its
\* timer, its handler and its roster entry stay.  The roster names it by
\* the key it had, tagged with the order in which it left
ORPHAN_TAG == "~"

OrphanKey(S, key) == [k \in 1..(Len(S.orphans) + 1) |-> ORPHAN_TAG] \o key

\* this.locks[channel] is overwritten or deleted, the object is kept by
\* the roster, the connection and the timer; NoLock has no state to keep
Orphan(S, i) ==
    LET e == S.locks[i]
        key == OrphanKey(S, e.key)
    IN  IF e.lock.kind = "NoLock"
        THEN [S EXCEPT !.locks = RemoveAt(@, i)]
        ELSE [S EXCEPT !.locks = RemoveAt(@, i),
                       !.orphans = Append(@, [key |-> key, lock |-> e.lock]),
                       !.instances = [k \in 1..Len(@) |->
                                        IF @[k] = e.key THEN key ELSE @[k]]]

\* the context in which the methods of PgIpLock address the locks outside
\* the registry: Outside(PgIpLock_acquire(Outside(S), j)) is acquire() of
\* the j-th of them
Outside(S) == [S EXCEPT !.locks = S.orphans, !.orphans = S.locks]

\* two listen(channel) calls of which the second starts while the first
\* awaits createLock(): both find no entry and create a lock, the second
\* assignment to this.locks[channel] overwrites the first; each call goes
\* on with the lock it created, the queries run in the order of the calls
listenOverlap(S, channel) ==
    LET S0 == [S EXCEPT !.out = @ \o <<Call("listen", channel),
                                       Call("listen", channel)>>]
        S1 == createLock(S0, channel)
        first == S1.locks[Len(S1.locks)].lock
        S2 == Orphan(S1, Len(S1.locks))
        S3 == createLock(S2, channel)
        i == LockIndex(S3.locks, channel)
        j == Len(S3.orphans)
        S4 == IF first.kind = "NoLock" THEN S3
              ELSE Outside(PgIpLock_acquire(Outside(S3), j))
        S5 == IF first.kind = "NoLock" \/ isAcquired(S4.orphans[j].lock)
              THEN [S4 EXCEPT !.subs[S.p] = @ \cup {channel},
                              !.out = @ \o <<Query("LISTEN", channel),
                                             Emit("listen", channel, NoArg)>>]
              ELSE S4
        S6 == PgIpLock_acquire(S5, i)
    IN  IF isAcquired(S6.locks[i].lock)
        THEN [S6 EXCEPT !.subs[S.p] = @ \cup {channel},
                        !.out = @ \o <<Query("LISTEN", channel),
                                       Emit("listen", channel, NoArg)>>]
        ELSE S6

\* mutant: LISTEN and the listen event do not depend on acquire()
listen_Unconditional(S, channel) ==
    LET S0 == [S EXCEPT !.out = @ \o <<Call("listen", channel)>>]
        S1 == lock(S0, channel)
        i == LockIndex(S1.locks, channel)
        S2 == PgIpLock_acquire(S1, i)
    IN  [S2 EXCEPT !.subs[S.p] = @ \cup {channel},
                   !.out = @ \o <<Query("LISTEN", channel),
                                  Emit("listen", channel, NoArg)>>]

\* PgPubSub.listen(channel)
listen(S, channel) ==
    LET S0 == [S EXCEPT !.out = @ \o <<Call("listen", channel)>>]
        S1 == lock(S0, channel)
        i == LockIndex(S1.locks, channel)
        S2 == PgIpLock_acquire(S1, i)
    IN  IF isAcquired(S2.locks[i].lock)
        THEN [S2 EXCEPT !.subs[S.p] = @ \cup {channel},
                        !.out = @ \o <<Query("LISTEN", channel),
                                       Emit("listen", channel, NoArg)>>]
        ELSE S2

\* PgPubSub.unlisten(channel)
unlisten(S, channel) ==
    LET S1 == [S EXCEPT !.subs[S.p] = @ \ {channel},
                        !.out = @ \o <<Query("UNLISTEN", channel)>>]
        i == LockIndex(S1.locks, channel)
        S2 == IF HasLock(S1.locks, channel)
              THEN [PgIpLock_destroy(S1, i) EXCEPT
                        !.locks = RemoveAt(@, i)]
              ELSE S1
    IN  [S2 EXCEPT !.out = @ \o <<Emit("unlisten", channel, NoArg)>>]

\* PgPubSub.release(): every lock of the registry is released when it is
\* acquired and deleted from the registry; destroy() is not called
RECURSIVE release(_)
release(S) ==
    IF S.locks = << >> THEN S
    ELSE LET S1 == PgIpLock_release(S, 1)
         IN  release(Orphan(S1, 1))

\* PgPubSub.unlistenAll(): UNLISTEN *, release(), then the unlisten event
\* with the keys the registry has by then
unlistenAll(S) ==
    LET S1 == [S EXCEPT !.subs[S.p] = {},
                        !.out = @ \o <<Query("UNLISTEN", NoChannel)>>]
        S2 == release(S1)
        keys == [i \in 1..Len(S2.locks) |-> S2.locks[i].key]
    IN  [S2 EXCEPT !.out = @ \o <<Emit("unlisten", keys, NoArg)>>]

\* PgPubSub.notify(channel, payload)
notify(S, channel, payload) ==
    LET n == [channel |-> channel, payload |-> pack(payload),
              processId |-> S.processId]
    IN  [S EXCEPT !.box = Fanout(@, S.subs, S.status, n),
                  !.out = @ \o <<Query("NOTIFY", channel),
                                 Emit("notify", channel, payload)>>]

\* mutant: the lock state does not gate the message
onNotification_NoLockGate(S, n) ==
    LET S1 == lock(S, n.channel)
        skip == RX_LOCK_CHANNEL(n.channel)
                \/ (S.options.filtered /\ S.processId = n.processId)
        payload == unpack(n.payload)
    IN  IF skip THEN S1
        ELSE [S1 EXCEPT !.out = @ \o <<Emit("message", n.channel, payload),
                                       ChannelsEmit(n.channel, payload)>>]

\* mutant: lock channels are not skipped
onNotification_NoPrefixSkip(S, n) ==
    LET S1 == lock(S, n.channel)
        l == S1.locks[LockIndex(S1.locks, n.channel)].lock
        skip == S.options.filtered /\ S.processId = n.processId
        payload == unpack(n.payload)
    IN  IF skip THEN S1
        ELSE IF S.options.singleListener /\ ~isAcquired(l) THEN S1
        ELSE [S1 EXCEPT !.out = @ \o <<Emit("message", n.channel, payload),
                                       ChannelsEmit(n.channel, payload)>>]

\* mutant: self-emitted notifications are not filtered
onNotification_NoSelfFilter(S, n) ==
    LET S1 == lock(S, n.channel)
        l == S1.locks[LockIndex(S1.locks, n.channel)].lock
        skip == RX_LOCK_CHANNEL(n.channel)
        payload == unpack(n.payload)
    IN  IF skip THEN S1
        ELSE IF S.options.singleListener /\ ~isAcquired(l) THEN S1
        ELSE [S1 EXCEPT !.out = @ \o <<Emit("message", n.channel, payload),
                                       ChannelsEmit(n.channel, payload)>>]

\* mutant: the per-channel event is emitted before the message event
onNotification_ChannelFirst(S, n) ==
    LET S1 == lock(S, n.channel)
        l == S1.locks[LockIndex(S1.locks, n.channel)].lock
        skip == RX_LOCK_CHANNEL(n.channel)
                \/ (S.options.filtered /\ S.processId = n.processId)
        payload == unpack(n.payload)
    IN  IF skip THEN S1
        ELSE IF S.options.singleListener /\ ~isAcquired(l) THEN S1
        ELSE [S1 EXCEPT !.out = @ \o <<ChannelsEmit(n.channel, payload),
                                       Emit("message", n.channel, payload)>>]

\* PgPubSub.onNotification(notification)
onNotification(S, n) ==
    LET S1 == lock(S, n.channel)
        l == S1.locks[LockIndex(S1.locks, n.channel)].lock
        skip == RX_LOCK_CHANNEL(n.channel)
                \/ (S.options.filtered /\ S.processId = n.processId)
        payload == unpack(n.payload)
    IN  IF skip THEN S1
        ELSE IF S.options.singleListener /\ ~isAcquired(l) THEN S1
        ELSE [S1 EXCEPT !.out = @ \o <<Emit("message", n.channel, payload),
                                       ChannelsEmit(n.channel, payload)>>]

RECURSIVE NotifyHandlers(_, _)
\* the release handlers attached to the connection that match n:
\* each one calls PgPubSub.listen with the unmangled name
NotifyHandlers(reg, n) ==
    IF reg = << >> THEN 0
    ELSE (IF Head(reg).lock.channel = n.channel THEN Head(reg).lock.handler
          ELSE 0) + NotifyHandlers(Tail(reg), n)

RECURSIVE Times(_, _, _)
Times(S, k, channel) ==
    IF k = 0 THEN S ELSE Times(listen(S, channel), k - 1, channel)

\* pgClient.emit('notification', n): the facade's handler when it is
\* attached, then the locks'
dispatch(S, n) ==
    Times(IF S.client.onNotification THEN onNotification(S, n) ELSE S,
          NotifyHandlers(S.locks, n) + NotifyHandlers(S.orphans, n),
          StripLockPrefix(n.channel))

\* PgPubSub.onReconnect(): listen() for every key of the registry
RECURSIVE ListenAll(_, _)
ListenAll(S, keys) ==
    IF keys = << >> THEN S ELSE ListenAll(listen(S, Head(keys)), Tail(keys))

\* mutant: the registry is not listened again
onReconnect_NoListen(S) ==
    [S EXCEPT !.out = @ \o <<Emit("reconnect", NoChannel, Number(S.retry))>>,
              !.retry = 0]

onReconnect(S) ==
    LET keys == [i \in 1..Len(S.locks) |-> S.locks[i].key]
    IN  [ListenAll(S, keys) EXCEPT
            !.out = @ \o <<Emit("reconnect", NoChannel, Number(S.retry))>>,
            !.retry = 0]

\* mutant: close() releases the first lock of the registry
close_Release(S) ==
    [(IF S.locks = << >> THEN S ELSE PgIpLock_release(S, 1)) EXCEPT
        !.locks = [i \in 1..Len(@) |-> [@[i] EXCEPT !.lock.handler = 0]],
        !.orphans = [i \in 1..Len(@) |-> [@[i] EXCEPT !.lock.handler = 0]],
        !.client = [@ EXCEPT !.onNotification = FALSE, !.onceConnect = 0,
                             !.reconnect = 0],
        !.out = @ \o <<Call("close", NoChannel),
                       Emit("close", NoChannel, NoArg)>>]

\* PgPubSub.close(): the transport ends and loses all its listeners, the
\* release handlers of the locks among them
close(S) ==
    [S EXCEPT !.locks = [i \in 1..Len(@) |->
                            [@[i] EXCEPT !.lock.handler = 0]],
              !.orphans = [i \in 1..Len(@) |->
                              [@[i] EXCEPT !.lock.handler = 0]],
              !.client = [@ EXCEPT !.onNotification = FALSE, !.onceConnect = 0,
                             !.reconnect = 0],
              !.out = @ \o <<Call("close", NoChannel),
                             Emit("close", NoChannel, NoArg)>>]

\* PgIpLock.destroy(), static: destroy() of every lock of a copy of the roster
RECURSIVE DestroyAll(_, _)
DestroyAll(S, roster) ==
    IF roster = << >> THEN S
    ELSE DestroyAll(
            IF HasLock(S.locks, Head(roster))
            THEN PgIpLock_destroy(S, LockIndex(S.locks, Head(roster)))
            ELSE IF HasLock(S.orphans, Head(roster))
            THEN Outside(PgIpLock_destroy(
                             Outside(S), LockIndex(S.orphans, Head(roster))))
            ELSE S,
            Tail(roster))

\* destroyLock(): the exit code is 1 when PgIpLock.destroy() is rejected
destroyLock(S) ==
    LET R == IF S.instances = << >> THEN S ELSE DestroyAll(S, S.instances)
        code == IF \E k \in 1..Len(R.out) : IsThrow(R.out[k]) THEN 1 ELSE 0
    IN  [R EXCEPT !.out = @ \o <<Exit(code)>>]

\* the 'connect' event of the transport runs every once-handler that
\* connect() has registered and that has not fired: each emits connect
ConnectEvents(n) == [k \in 1..n |-> Emit("connect", NoChannel, NoArg)]

\* RETRY_LIMIT = Infinity is no limit
Infinity == -1

\* this.options.retryLimit <= ++this.retry, r the incremented counter
LimitReached(limit, r) == limit # Infinity /\ limit <= r

\* new Error(`Connect failed after ${this.retry} retries...`)
ConnectFailed(r) == [t |-> "Connect failed after retries", v |-> r]

(***************************************************************************)
(* Initial state: the facades are constructed and not connected            *)
(***************************************************************************)
\* the listeners after the constructor: onNotification is attached, no
\* once('connect') handler of connect() is waiting, reconnect() waits for
\* none of the events 'end' and 'error', no retry timer is armed
NewClient ==
    [onNotification |-> TRUE, onceConnect |-> 0, reconnect |-> 0, timers |-> 0]

DefaultOptions ==
    [singleListener |-> TRUE, filtered |-> FALSE, executionLock |-> FALSE,
     retryLimit |-> Infinity]

NoEvent == Event("none", "", NoChannel, NoNotification)

InitState ==
    /\ status = [p \in Procs |-> "new"]
    /\ retry = [p \in Procs |-> 0]
    /\ client = [p \in Procs |-> NewClient]
    /\ instances = [p \in Procs |-> << >>]
    /\ orphans = [p \in Procs |-> << >>]
    /\ uuids = [p \in Procs |-> 0]
    /\ appName = [p \in Procs |-> NoApp]
    /\ processId = [p \in Procs |-> NoApp]
    /\ locks = [p \in Procs |-> << >>]
    /\ activity = {}
    /\ subs = [p \in Procs |-> {}]
    /\ inbox = [p \in Procs |-> << >>]
    /\ lockTable = {}
    /\ uniqueTable = {}
    /\ uniqueLocks = [p \in Procs |-> [k \in UniqueKeys |-> FALSE]]
    /\ ev = NoEvent
    /\ out = << >>

Init ==
    /\ opts = [p \in Procs |-> DefaultOptions]
    /\ InitState

\* the handler's context becomes the new state
Commit(S, e) ==
    /\ locks' = [locks EXCEPT ![S.p] = S.locks]
    /\ client' = [client EXCEPT ![S.p] = S.client]
    /\ instances' = [instances EXCEPT ![S.p] = S.instances]
    /\ orphans' = [orphans EXCEPT ![S.p] = S.orphans]
    /\ lockTable' = S.table
    /\ subs' = S.subs
    /\ inbox' = S.box
    /\ out' = S.out
    /\ ev' = e

(***************************************************************************)
(* Connection supervisor and server side of the connection                 *)
(***************************************************************************)
\* PgPubSub.connect(): the transport connects, setAppName(), setProcessId()
Connect(p) ==
    /\ status[p] = "new"
    /\ uuids' = [uuids EXCEPT ![p] = @ + 1]
    /\ status' = [status EXCEPT ![p] = "up"]
    /\ appName' = [appName EXCEPT ![p] = App(p, uuids'[p])]
    /\ processId' = [processId EXCEPT ![p] = App(p, uuids'[p])]
    /\ activity' = activity \cup {App(p, uuids'[p])}
    /\ client' = [client EXCEPT ![p].onceConnect = 0, ![p].reconnect = 2]
    /\ ev' = Event("connect", p, NoChannel, NoNotification)
    /\ out' = ConnectEvents(client[p].onceConnect + 1)
    /\ UNCHANGED <<opts, instances, orphans, retry, locks, subs, inbox, lockTable,
                   uniqueTable, uniqueLocks>>

\* a retry timer armed by reconnect() is pending; close() does not clear it
TimerPending(p) == client[p].timers > 0

\* a retry timer of p fires; the timers that fire while the connection is
\* established are left pending
TimerFires(p) == TimerPending(p) /\ status[p] # "up"

\* connections lost so far: every application name after a process's first
\* one was generated by a reconnect
Lost ==
    LET RECURSIVE Sum(_)
        Sum(P) == IF P = {} THEN 0
                  ELSE LET q == CHOOSE q \in P : TRUE
                       IN  (IF uuids[q] > 0 THEN uuids[q] - 1 ELSE 0)
                           + (IF TimerPending(q) THEN 1 ELSE 0)
                           + Sum(P \ {q})
    IN  Sum(Procs)

\* the transport emits 'end' or 'error': the connection is gone, the retry
\* timer is armed; the backend stays in the activity view until it is reaped
ConnLost(p) ==
    /\ status[p] = "up"
    /\ Lost < MaxLost
    /\ status' = [status EXCEPT ![p] = "retrying"]
    /\ subs' = [subs EXCEPT ![p] = {}]
    /\ inbox' = [inbox EXCEPT ![p] = << >>]
    /\ client' = [client EXCEPT ![p].reconnect = @ - 1, ![p].timers = @ + 1]
    /\ ev' = Event("end", p, NoChannel, NoNotification)
    /\ out' = <<Emit("end", NoChannel, NoArg)>>
    /\ UNCHANGED <<opts, instances, orphans, retry, uuids, appName, processId, locks,
                   activity, lockTable, uniqueTable, uniqueLocks>>

\* the transport emits the other one of 'error' and 'end' for a connection
\* that is lost: the once-handler of that event calls reconnect() as well
SecondEvent(p) ==
    /\ status[p] = "retrying"
    /\ client[p].reconnect > 0
    /\ client' = [client EXCEPT ![p].reconnect = @ - 1, ![p].timers = @ + 1]
    /\ ev' = Event("error", p, NoChannel, NoNotification)
    /\ out' = <<Emit("error", NoChannel, NoArg)>>
    /\ UNCHANGED <<opts, status, instances, orphans, retry, uuids, appName, processId,
                   locks, activity, subs, inbox, lockTable, uniqueTable,
                   uniqueLocks>>

\* PgPubSub.connect() whose transport emits 'end' before 'connect': the
\* once-handler arms the retry timer; the once('connect') handler of this
\* connect() stays on the transport
ConnectFail(p) ==
    /\ status[p] = "new"
    /\ status' = [status EXCEPT ![p] = "retrying"]
    /\ client' = [client EXCEPT ![p].onceConnect = @ + 1,
                                ![p].reconnect = 1, ![p].timers = @ + 1]
    /\ ev' = Event("connectFail", p, NoChannel, NoNotification)
    /\ out' = <<Call("connect", NoChannel), Emit("end", NoChannel, NoArg)>>
    /\ UNCHANGED <<opts, instances, orphans, retry, uuids, appName, processId, locks,
                   activity, subs, inbox, lockTable, uniqueTable, uniqueLocks>>

\* PgPubSub.reconnect(): the retry timer fires below the limit, connect()
\* succeeds and onReconnect() re-listens every key of the registry
RetryFire(p) ==
    /\ TimerFires(p)
    /\ ~LimitReached(opts[p].retryLimit, retry[p] + 1)
    /\ uuids' = [uuids EXCEPT ![p] = @ + 1]
    /\ status' = [status EXCEPT ![p] = "up"]
    /\ appName' = [appName EXCEPT ![p] = App(p, uuids'[p])]
    /\ processId' = [processId EXCEPT ![p] = App(p, uuids'[p])]
    /\ activity' = activity \cup {App(p, uuids'[p])}
    /\ LET S == [Context(p, inbox) EXCEPT
                    !.appName = appName'[p], !.processId = processId'[p],
                    !.status = status', !.activity = activity',
                    !.retry = retry[p] + 1,
                    !.client.onceConnect = 0,
                    !.client.reconnect = 2,
                    !.client.timers = @ - 1,
                    !.out = <<Call("connect", NoChannel)>>
                            \o ConnectEvents(client[p].onceConnect + 1)]
           R == onReconnect(S)
       IN  /\ Commit(R, Event("reconnect", p, NoChannel, NoNotification))
           /\ retry' = [retry EXCEPT ![p] = R.retry]
    /\ UNCHANGED <<opts, uniqueTable, uniqueLocks>>

\* PgPubSub.reconnect(): the retry timer fires below the limit and the
\* transport of the attempt emits 'end': the timer is armed again and the
\* once('connect') handler of this connect() stays on the transport
RetryFail(p) ==
    /\ TimerFires(p)
    /\ ~LimitReached(opts[p].retryLimit, retry[p] + 1)
    /\ retry[p] < MaxRetry
    /\ retry' = [retry EXCEPT ![p] = @ + 1]
    /\ status' = [status EXCEPT ![p] = "retrying"]
    /\ client' = [client EXCEPT ![p].onceConnect = @ + 1,
                                ![p].reconnect = 1]
    /\ ev' = Event("retryFail", p, NoChannel, NoNotification)
    /\ out' = <<Call("connect", NoChannel), Emit("end", NoChannel, NoArg)>>
    /\ UNCHANGED <<opts, instances, orphans, uuids, appName, processId, locks,
                   activity, subs, inbox, lockTable, uniqueTable, uniqueLocks>>

\* PgPubSub.reconnect(): the retry timer fires at the limit: error, close()
RetryExhausted(p) ==
    /\ TimerFires(p)
    /\ LimitReached(opts[p].retryLimit, retry[p] + 1)
    /\ retry' = [retry EXCEPT ![p] = @ + 1]
    /\ status' = [status EXCEPT ![p] = IF client[p].timers > 1
                                       THEN "closedTimer" ELSE "closed"]
    /\ LET S == [Context(p, inbox) EXCEPT
                    !.retry = retry[p] + 1,
                    !.client.timers = @ - 1,
                    !.out = <<Emit("error", NoChannel,
                                   ConnectFailed(retry[p] + 1))>>]
       IN  Commit(close(S), Event("exhausted", p, NoChannel, NoNotification))
    /\ UNCHANGED <<opts, uuids, appName, processId, activity, uniqueTable,
                   uniqueLocks>>

\* the state of the connection after pgClient.end(): a live connection is
\* ended; a retry timer that is pending stays pending
Ended(p) == IF TimerPending(p) THEN "closedTimer" ELSE "closed"

\* the context of a handler of p that has called pgClient.end()
EndedContext(p) ==
    [Context(p, [inbox EXCEPT ![p] = << >>]) EXCEPT
        !.status[p] = Ended(p), !.subs[p] = {}]

\* PgPubSub.close() called by the user
Close(p) ==
    /\ status[p] \in {"up", "retrying"}
    /\ status' = [status EXCEPT ![p] = Ended(p)]
    /\ Commit(close(EndedContext(p)),
              Event("close", p, NoChannel, NoNotification))
    /\ UNCHANGED <<opts, retry, uuids, appName, processId, activity,
                   uniqueTable, uniqueLocks>>

\* PgPubSub.connect() called on a facade that was closed: the handlers that
\* the constructor attached are not attached again
ConnectAfterClose(p) ==
    /\ status[p] = "closed"
    /\ uuids[p] < MaxConnects
    /\ uuids' = [uuids EXCEPT ![p] = @ + 1]
    /\ status' = [status EXCEPT ![p] = "up"]
    /\ appName' = [appName EXCEPT ![p] = App(p, uuids'[p])]
    /\ processId' = [processId EXCEPT ![p] = App(p, uuids'[p])]
    /\ activity' = activity \cup {App(p, uuids'[p])}
    /\ client' = [client EXCEPT ![p].onceConnect = 0, ![p].reconnect = 2]
    /\ ev' = Event("connect", p, NoChannel, NoNotification)
    /\ out' = ConnectEvents(client[p].onceConnect + 1)
    /\ UNCHANGED <<opts, instances, orphans, retry, locks, subs, inbox, lockTable,
                   uniqueTable, uniqueLocks>>

\* PgPubSub.destroy(): Promise.all([this.close(), PgIpLock.destroy()]);
\* close() calls pgClient.end() and waits for it, the locks of the roster
\* issue their commands on the ended transport, then close() goes on
Destroy(p) ==
    /\ status[p] \in {"up", "retrying"}
    /\ status' = [status EXCEPT ![p] = Ended(p)]
    /\ LET S == [EndedContext(p) EXCEPT
                    !.out = <<Call("destroy", NoChannel),
                              Call("close", NoChannel)>>]
           R == DestroyAll(S, S.instances)
       IN  Commit([close(R) EXCEPT
                      !.out = R.out \o <<Emit("close", NoChannel, NoArg)>>],
                  Event("destroy", p, NoChannel, NoNotification))
    /\ UNCHANGED <<opts, retry, uuids, appName, processId, activity,
                   uniqueTable, uniqueLocks>>

\* SIGINT, SIGTERM or SIGABRT: terminate() runs destroyLock() and the
\* process exits with the code it returned
Signal(p) ==
    /\ status[p] \in {"up", "retrying"}
    /\ \A i \in 1..Len(locks[p]) :
          RoomFor(inbox, subs, status, locks[p][i].lock.channel)
    /\ status' = [status EXCEPT ![p] = "exited"]
    /\ LET R == destroyLock(Context(p, inbox))
       IN  Commit([R EXCEPT !.subs[p] = {}, !.box[p] = << >>],
                  Event("signal", p, NoChannel, NoNotification))
    /\ UNCHANGED <<opts, retry, uuids, appName, processId, activity,
                   uniqueTable, uniqueLocks>>

\* the server removes the backend of a lost connection from pg_stat_activity
Reap(a) ==
    /\ a \in activity
    /\ ~\E p \in Procs : status[p] = "up" /\ appName[p] = a
    /\ activity' = activity \ {a}
    /\ ev' = Event("reap", a[1], NoChannel, NoNotification)
    /\ out' = << >>
    /\ UNCHANGED <<opts, client, instances, orphans, retry, status, uuids, appName, processId, locks, subs,
                   inbox, lockTable, uniqueTable, uniqueLocks>>

(***************************************************************************)
(* Facade operations, timers and notification dispatch                     *)
(***************************************************************************)
Listen(p, c) ==
    /\ status[p] = "up"
    /\ Commit(listen(Context(p, inbox), c),
              Event("listen", p, c, NoNotification))
    /\ UNCHANGED <<opts, retry, status, uuids, appName, processId, activity,
                   uniqueTable, uniqueLocks>>

Unlisten(p, c) ==
    /\ status[p] = "up"
    /\ RoomFor(inbox, subs, status, LockChannel(c))
    /\ Commit(unlisten(Context(p, inbox), c),
              Event("unlisten", p, c, NoNotification))
    /\ UNCHANGED <<opts, retry, status, uuids, appName, processId, activity,
                   uniqueTable, uniqueLocks>>

\* lock.release() called on a lock of the registry, whatever the state of
\* the connection
LockRelease(p, i) ==
    /\ i \in 1..Len(locks[p])
    /\ locks[p][i].lock.kind = "PgIpLock"
    /\ RoomFor(inbox, subs, status, locks[p][i].lock.channel)
    /\ Commit(PgIpLock_release(Context(p, inbox), i),
              Event("release", p, locks[p][i].key, NoNotification))
    /\ UNCHANGED <<opts, retry, status, uuids, appName, processId, activity,
                   uniqueTable, uniqueLocks>>

\* the acquire timer armed by init(): () => !this.acquired && this.acquire();
\* it fires whatever the state of the connection, in a process that runs
TimerTick(p, i) ==
    /\ status[p] # "exited"
    /\ i \in 1..Len(locks[p])
    /\ locks[p][i].lock.timer > 0
    /\ ~locks[p][i].lock.acquired
    /\ Commit(PgIpLock_acquire(Context(p, inbox), i),
              Event("tick", p, locks[p][i].key, NoNotification))
    /\ UNCHANGED <<opts, retry, status, uuids, appName, processId, activity,
                   uniqueTable, uniqueLocks>>

\* the acquire timer of a lock that is no longer in the registry
OrphanTick(p, j) ==
    /\ status[p] # "exited"
    /\ j \in 1..Len(orphans[p])
    /\ orphans[p][j].lock.timer > 0
    /\ ~orphans[p][j].lock.acquired
    /\ Commit(Outside(PgIpLock_acquire(Outside(Context(p, inbox)), j)),
              Event("orphanTick", p, orphans[p][j].key, NoNotification))
    /\ UNCHANGED <<opts, retry, status, uuids, appName, processId, activity,
                   uniqueTable, uniqueLocks>>

\* two overlapping listen(c) calls on a channel that has no lock yet
ListenOverlap(p, c) ==
    /\ status[p] = "up"
    /\ ~HasLock(locks[p], c)
    /\ Len(orphans[p]) < MaxOrphans
    /\ Commit(listenOverlap(Context(p, inbox), c),
              Event("listenOverlap", p, c, NoNotification))
    /\ UNCHANGED <<opts, retry, status, uuids, appName, processId, activity,
                   uniqueTable, uniqueLocks>>

UnlistenAll(p) ==
    /\ status[p] = "up"
    /\ Len(orphans[p]) + Len(locks[p]) <= MaxOrphans
    /\ \A i \in 1..Len(locks[p]) :
          RoomFor(inbox, [subs EXCEPT ![p] = {}], status,
                  locks[p][i].lock.channel)
    /\ Commit(unlistenAll(Context(p, inbox)),
              Event("unlistenAll", p, NoChannel, NoNotification))
    /\ UNCHANGED <<opts, retry, status, uuids, appName, processId, activity,
                   uniqueTable, uniqueLocks>>

\* lock.destroy() called on a lock of the registry, which keeps the object
LockDestroy(p, i) ==
    /\ i \in 1..Len(locks[p])
    /\ locks[p][i].lock.kind = "PgIpLock"
    /\ RoomFor(inbox, subs, status, locks[p][i].lock.channel)
    /\ Commit(PgIpLock_destroy(Context(p, inbox), i),
              Event("destroy", p, locks[p][i].key, NoNotification))
    /\ UNCHANGED <<opts, retry, status, uuids, appName, processId, activity,
                   uniqueTable, uniqueLocks>>

\* lock.init() called on a destroyed lock of the registry
LockInit(p, i) ==
    /\ i \in 1..Len(locks[p])
    /\ locks[p][i].lock.kind = "PgIpLock"
    /\ locks[p][i].lock.timer = 0
    /\ Commit(PgIpLock_init(Context(p, inbox), i),
              Event("init", p, locks[p][i].key, NoNotification))
    /\ UNCHANGED <<opts, retry, status, uuids, appName, processId, activity,
                   uniqueTable, uniqueLocks>>

\* lock.init() called on a lock of the registry that is initialised
LockInitAgain(p, i) ==
    /\ i \in 1..Len(locks[p])
    /\ locks[p][i].lock.kind = "PgIpLock"
    /\ locks[p][i].lock.timer > 0
    /\ locks[p][i].lock.handler < MaxAttach
    /\ Commit(PgIpLock_init(Context(p, inbox), i),
              Event("reinit", p, locks[p][i].key, NoNotification))
    /\ UNCHANGED <<opts, retry, status, uuids, appName, processId, activity,
                   uniqueTable, uniqueLocks>>

\* lock.onRelease(handler) called on a lock of the registry
LockOnRelease(p, i) ==
    /\ i \in 1..Len(locks[p])
    /\ locks[p][i].lock.kind = "PgIpLock"
    /\ Commit(PgIpLock_onRelease(Context(p, inbox), i),
              Event("onRelease", p, locks[p][i].key, NoNotification))
    /\ UNCHANGED <<opts, retry, status, uuids, appName, processId, activity,
                   uniqueTable, uniqueLocks>>

Notify(p, c, payload) ==
    /\ status[p] = "up"
    /\ RoomFor(inbox, subs, status, c)
    /\ Commit(notify(Context(p, inbox), c, payload),
              Event("notify", p, c, NoNotification))
    /\ UNCHANGED <<opts, retry, status, uuids, appName, processId, activity,
                   uniqueTable, uniqueLocks>>

\* the transport dispatches the next notification of the connection
Deliver(p) ==
    /\ status[p] = "up"
    /\ inbox[p] # << >>
    /\ LET n == Head(inbox[p])
           S == Context(p, [inbox EXCEPT ![p] = Tail(@)])
       IN  Commit(dispatch(S, n), Event("notification", p, n.channel, n))
    /\ UNCHANGED <<opts, retry, status, uuids, appName, processId, activity,
                   uniqueTable, uniqueLocks>>

\* a database session that is not a facade issues NOTIFY ch, payload
ForeignPid == <<"db", 0>>

ForeignNotify(ch, payload) ==
    /\ RoomFor(inbox, subs, status, ch)
    /\ inbox' = Fanout(inbox, subs, status,
          [channel |-> ch, payload |-> payload, processId |-> ForeignPid])
    /\ ev' = Event("foreign", "", ch, NoNotification)
    /\ out' = << >>
    /\ UNCHANGED <<opts, client, instances, orphans, retry, status, uuids, appName, processId, locks, activity,
                   subs, lockTable, uniqueTable, uniqueLocks>>

(***************************************************************************)
(* Locks with a unique key, used directly: new PgIpLock(channel, options,  *)
(* uniqueKey).  Process p owns one lock object per key, on UniqueChannel.  *)
(***************************************************************************)
UniqueChannel == LockChannel(<<"C">>)

\* PgIpLock.acquire() of a lock with a unique key
UniqueAcquire(p, k) ==
    /\ status[p] = "up"
    /\ LET r == acquireUniqueLock(uniqueTable, activity, k, UniqueChannel,
                                  appName[p])
       IN  /\ uniqueTable' = r.table
           /\ uniqueLocks' = [uniqueLocks EXCEPT ![p][k] = r.ok]
    /\ ev' = Event("uniqueAcquire", p, UniqueChannel, NoNotification)
    /\ out' = <<Query("INSERT", UniqueChannel)>>
    /\ UNCHANGED <<opts, client, instances, orphans, retry, status, uuids, appName, processId, locks, activity,
                   subs, inbox, lockTable>>

\* PgIpLock.release() of a lock with a unique key: DELETE ... WHERE id = k
UniqueRelease(p, k) ==
    /\ status[p] = "up"
    /\ uniqueTable' = { r \in uniqueTable : r.id # k }
    /\ uniqueLocks' = [uniqueLocks EXCEPT ![p][k] = FALSE]
    /\ ev' = Event("uniqueRelease", p, UniqueChannel, NoNotification)
    /\ out' = <<Query("DELETE", UniqueChannel)>>
    /\ UNCHANGED <<opts, client, instances, orphans, retry, status, uuids, appName, processId, locks, activity,
                   subs, inbox, lockTable>>

Next ==
    \/ \E p \in Procs : Connect(p)
    \/ \E p \in Procs : ConnLost(p)
    \/ \E p \in Procs : RetryFire(p)
    \/ \E a \in activity : Reap(a)
    \/ \E p \in Procs, c \in UserChannels : Listen(p, c)
    \/ \E p \in Procs, c \in UserChannels : Unlisten(p, c)
    \/ \E p \in Procs, i \in 1..MaxLocks : LockRelease(p, i)
    \/ \E p \in Procs, i \in 1..MaxLocks : TimerTick(p, i)
    \/ \E p \in Procs, c \in UserChannels : Notify(p, c, JsonTrue)
    \/ \E p \in Procs : Deliver(p)

Spec == Init /\ [][Next]_vars

TypeOK ==
    /\ \A p \in Procs : Len(locks[p]) <= MaxLocks /\ Len(inbox[p]) <= MaxInbox

(***************************************************************************)
(* The notification demultiplexer under every option set of facade A       *)
(* (facade B keeps the defaults and plays the peer): both facades          *)
(* connected once, facade NOTIFYs with a well-formed payload and foreign   *)
(* NOTIFYs with a malformed one, listen() on user and lock channel names.  *)
(***************************************************************************)
OptionSets ==
    { [singleListener |-> s, filtered |-> f, executionLock |-> FALSE,
       retryLimit |-> Infinity]
        : s \in BOOLEAN, f \in BOOLEAN }

InitDemux ==
    /\ opts \in { o \in [Procs -> OptionSets] : o["B"] = DefaultOptions }
    /\ InitState

NextDemux ==
    \/ \E p \in Procs : Connect(p)
    \/ \E p \in Procs, c \in Channels : Listen(p, c)
    \/ \E p \in Procs, i \in 1..MaxLocks : LockRelease(p, i)
    \/ \E p \in Procs, c \in UserChannels, v \in {JsonObjAB} :
          Notify(p, c, v)
    \/ \E ch \in Channels, payload \in {"{bad"} :
          ForeignNotify(ch, payload)
    \/ \E p \in Procs : Deliver(p)

SpecDemux == InitDemux /\ [][NextDemux]_vars

(***************************************************************************)
(* Channel locks and unique-key locks side by side                         *)
(***************************************************************************)
NextUnique ==
    \/ \E p \in Procs : Connect(p)
    \/ \E p \in Procs : ConnLost(p)
    \/ \E a \in activity : Reap(a)
    \/ \E p \in Procs, c \in UserChannels : Listen(p, c)
    \/ \E p \in Procs, i \in 1..MaxLocks : LockRelease(p, i)
    \/ \E p \in Procs : Deliver(p)
    \/ \E p \in Procs, k \in UniqueKeys : UniqueAcquire(p, k)
    \/ \E p \in Procs, k \in UniqueKeys : UniqueRelease(p, k)

SpecUnique == Init /\ [][NextUnique]_vars

(***************************************************************************)
(* acquire() against live, lost and reaped owners, on connections that are *)
(* up and on connections that are down                                     *)
(***************************************************************************)
NextAcquire ==
    \/ \E p \in Procs : Connect(p)
    \/ \E p \in Procs : ConnLost(p)
    \/ \E a \in activity : Reap(a)
    \/ \E p \in Procs, c \in UserChannels : Listen(p, c)
    \/ \E p \in Procs, i \in 1..MaxLocks : TimerTick(p, i)
    \/ \E p \in Procs, i \in 1..MaxLocks : LockRelease(p, i)
    \/ \E p \in Procs : Deliver(p)

SpecAcquire == Init /\ [][NextAcquire]_vars

(***************************************************************************)
(* Lock objects of the registry used directly, on connections that are up  *)
(* and on connections that are down: release(), destroy(), init() again,   *)
(* onRelease() again                                                       *)
(***************************************************************************)
NextLock ==
    \/ \E p \in Procs : Connect(p)
    \/ \E p \in Procs : ConnLost(p)
    \/ \E p \in Procs, c \in UserChannels : Listen(p, c)
    \/ \E p \in Procs, i \in 1..MaxLocks : LockDestroy(p, i)
    \/ \E p \in Procs, i \in 1..MaxLocks : LockInit(p, i)
    \/ \E p \in Procs, i \in 1..MaxLocks : LockOnRelease(p, i)
    \/ \E p \in Procs, i \in 1..MaxLocks : LockRelease(p, i)
    \/ \E p \in Procs : Deliver(p)

SpecLock == Init /\ [][NextLock]_vars

(***************************************************************************)
(* The connection supervisor under finite retry limits                     *)
(***************************************************************************)
RetryLimits == 0..MaxRetry

InitRetry ==
    /\ opts \in [Procs -> { [DefaultOptions EXCEPT !.retryLimit = n]
                              : n \in RetryLimits }]
    /\ InitState

NextRetry ==
    \/ \E p \in Procs : Connect(p)
    \/ \E p \in Procs : ConnectFail(p)
    \/ \E p \in Procs : ConnLost(p)
    \/ \E p \in Procs : RetryFire(p)
    \/ \E p \in Procs : RetryFail(p)
    \/ \E p \in Procs : RetryExhausted(p)
    \/ \E p \in Procs, c \in UserChannels : Listen(p, c)
    \/ \E p \in Procs, i \in 1..MaxLocks : LockRelease(p, i)
    \/ \E p \in Procs : Deliver(p)

SpecRetry == InitRetry /\ [][NextRetry]_vars

(***************************************************************************)
(* close(), connect() after close() and destroy() of the facade, with      *)
(* failed connection attempts and retry timers                             *)
(***************************************************************************)
NextClose ==
    \/ \E p \in Procs : Connect(p)
    \/ \E p \in Procs : ConnectFail(p)
    \/ \E p \in Procs : ConnLost(p)
    \/ \E p \in Procs : RetryFire(p)
    \/ \E p \in Procs : RetryFail(p)
    \/ \E p \in Procs : Close(p)
    \/ \E p \in Procs : ConnectAfterClose(p)
    \/ \E p \in Procs : Destroy(p)
    \/ \E a \in activity : Reap(a)
    \/ \E p \in Procs, c \in UserChannels : Listen(p, c)
    \/ \E p \in Procs, c \in UserChannels : Notify(p, c, JsonTrue)
    \/ \E p \in Procs : Deliver(p)

SpecClose == Init /\ [][NextClose]_vars

(***************************************************************************)
(* close() on facades whose locks are acquired, released or held by the    *)
(* peer, on connections that are up and on connections that are down       *)
(***************************************************************************)
NextCloseLocks ==
    \/ \E p \in Procs : Connect(p)
    \/ \E p \in Procs : ConnLost(p)
    \/ \E p \in Procs : Close(p)
    \/ \E p \in Procs, c \in UserChannels : Listen(p, c)
    \/ \E p \in Procs, i \in 1..MaxLocks : LockRelease(p, i)
    \/ \E p \in Procs : Deliver(p)

SpecCloseLocks == Init /\ [][NextCloseLocks]_vars

(***************************************************************************)
(* init() called again on locks that are initialised and on locks that     *)
(* were destroyed, with the acquire timers running                         *)
(***************************************************************************)
NextInit ==
    \/ \E p \in Procs : Connect(p)
    \/ \E p \in Procs, c \in UserChannels : Listen(p, c)
    \/ \E p \in Procs, i \in 1..MaxLocks : LockInit(p, i)
    \/ \E p \in Procs, i \in 1..MaxLocks : LockInitAgain(p, i)
    \/ \E p \in Procs, i \in 1..MaxLocks : LockDestroy(p, i)
    \/ \E p \in Procs, i \in 1..MaxLocks : TimerTick(p, i)

SpecInit == Init /\ [][NextInit]_vars

(***************************************************************************)
(* The release handler over init(), onRelease() and destroy() in every     *)
(* order, and the release notifications dispatched to it                   *)
(***************************************************************************)
NextHandler ==
    \/ \E p \in Procs : Connect(p)
    \/ \E p \in Procs, c \in UserChannels : Listen(p, c)
    \/ \E p \in Procs, i \in 1..MaxLocks : LockInit(p, i)
    \/ \E p \in Procs, i \in 1..MaxLocks : LockInitAgain(p, i)
    \/ \E p \in Procs, i \in 1..MaxLocks : LockOnRelease(p, i)
    \/ \E p \in Procs, i \in 1..MaxLocks : LockDestroy(p, i)
    \/ \E p \in Procs : Deliver(p)

SpecHandler == Init /\ [][NextHandler]_vars

(***************************************************************************)
(* Connection losses for which the transport emits both 'error' and 'end'  *)
(***************************************************************************)
NextLoss ==
    \/ \E p \in Procs : Connect(p)
    \/ \E p \in Procs : ConnectFail(p)
    \/ \E p \in Procs : ConnLost(p)
    \/ \E p \in Procs : SecondEvent(p)
    \/ \E p \in Procs : RetryFire(p)
    \/ \E p \in Procs : RetryFail(p)
    \/ \E p \in Procs, c \in UserChannels : Listen(p, c)

SpecLoss == Init /\ [][NextLoss]_vars

(***************************************************************************)
(* Termination signals on connections that are up and on connections that  *)
(* are down                                                                *)
(***************************************************************************)
NextShutdown ==
    \/ \E p \in Procs : Connect(p)
    \/ \E p \in Procs : ConnLost(p)
    \/ \E a \in activity : Reap(a)
    \/ \E p \in Procs, c \in UserChannels : Listen(p, c)
    \/ \E p \in Procs, i \in 1..MaxLocks : TimerTick(p, i)
    \/ \E p \in Procs : Deliver(p)
    \/ \E p \in Procs : Signal(p)

SpecShutdown == Init /\ [][NextShutdown]_vars

(***************************************************************************)
(* The demultiplexer with the executionLock option on                      *)
(***************************************************************************)
InitExecution ==
    /\ opts = [p \in Procs |-> [DefaultOptions EXCEPT !.executionLock = TRUE]]
    /\ InitState

NextExecution ==
    \/ \E p \in Procs : Connect(p)
    \/ \E p \in Procs, c \in UserChannels : Listen(p, c)
    \/ \E p \in Procs, i \in 1..MaxLocks : LockRelease(p, i)
    \/ \E p \in Procs, c \in UserChannels : Notify(p, c, JsonTrue)
    \/ \E p \in Procs : Deliver(p)

SpecExecution == InitExecution /\ [][NextExecution]_vars

(***************************************************************************)
(* Properties                                                              *)
(***************************************************************************)
IpLocks(p) ==
    { i \in 1..Len(locks[p]) : locks[p][i].lock.kind = "PgIpLock" }

Holders(c) ==
    { p \in Procs : \E i \in IpLocks(p) :
        /\ locks[p][i].lock.channel = LockChannel(c)
        /\ locks[p][i].lock.acquired }

RowsOf(table, ch) == { r \in table : r.channel = ch }

Registered(reg, key) == reg[LockIndex(reg, key)].lock

Has(o, x) == \E i \in 1..Len(o) : o[i] = x

IsUserEvent(x) == (x.k = "emit" /\ x.name = "message") \/ x.k = "channels.emit"

\* C1: in single-listener mode, for every channel, at most one process has
\* a lock object of the channel with acquired = TRUE, in every reachable state
C1_MutualExclusion ==
    \A c \in UserChannels : Cardinality(Holders(c)) <= 1

\* C4: for every channel lock object, acquired = TRUE if and only if the lock
\* table holds a row of the lock's channel whose app is the application name
\* of the lock's connection
C4_AcquiredIffRow ==
    \A p \in Procs : \A i \in IpLocks(p) :
        locks[p][i].lock.acquired <=>
            [channel |-> locks[p][i].lock.channel, app |-> appName[p]]
                \in lockTable

\* C2: when the release notification of channel c, caused by another
\* process deleting its row, is dispatched to a process that has called
\* listen(c) without acquiring, and the row is still gone, the
\* process ends the dispatch with the lock acquired, LISTEN c issued and
\* listen(c) emitted, and it is subscribed to c, so that a notification sent
\* on c afterwards is delivered to it
C2_FailoverOnRelease ==
    [][\A p \in Procs : \A c \in UserChannels :
        ( /\ Deliver(p)
          /\ Head(inbox[p]).channel = LockChannel(c)
          /\ Head(inbox[p]).processId # processId[p]
          /\ HasLock(locks[p], c)
          /\ ~Registered(locks[p], c).acquired
          /\ Registered(locks[p], c).handler > 0
          /\ RowsOf(lockTable, LockChannel(c)) = {} )
        => ( /\ HasLock(locks'[p], c)
             /\ Registered(locks'[p], c).acquired
             /\ Has(out', Query("LISTEN", c))
             /\ Has(out', Emit("listen", c, NoArg))
             /\ c \in subs'[p] )]_vars

\* C3: when the holder's connection is lost without a release notification
\* and its backend has left the activity view, a timer tick of another live
\* process that called listen on the channel takes the lock over, and that
\* process is then the live listener: it is subscribed to the user channel,
\* so that notifications sent on it afterwards are emitted by it as message
C3_SilentLossTakeover ==
    [][\A p \in Procs : \A i \in 1..MaxLocks :
        ( /\ TimerTick(p, i)
          /\ status[p] = "up"
          /\ locks[p][i].key \in UserChannels
          /\ \E r \in RowsOf(lockTable, locks[p][i].lock.channel) :
                r.app[1] # p /\ r.app \notin activity )
        => ( /\ locks'[p][i].lock.acquired
             /\ locks[p][i].key \in subs'[p] )]_vars

\* C5 as stated: for every channel the number of lock-table rows with that
\* channel is 0 or 1, for locks with and without a unique key
C5_OneRowPerChannel ==
    \A ch \in Channels :
        /\ Cardinality(RowsOf(lockTable, ch)) <= 1
        /\ Cardinality(RowsOf(uniqueTable, ch)) <= 1

\* C5 amended: the channel-lock table holds at most one row per channel and
\* the unique-key lock table holds at most one row per unique key
C5_OneRowPerPrimaryKey ==
    /\ \A ch \in Channels : Cardinality(RowsOf(lockTable, ch)) <= 1
    /\ \A k \in UniqueKeys :
          Cardinality({ r \in uniqueTable : r.id = k }) <= 1

C5_Witness ==
    /\ RowsOf(lockTable, UniqueChannel) # {}
    /\ \A k \in UniqueKeys : \E r \in uniqueTable : r.id = k
    /\ \E p \in Procs : \E k \in UniqueKeys : uniqueLocks[p][k]
    /\ ev.op = "uniqueAcquire"

(***************************************************************************)
(* Demultiplexer properties: a step Deliver(p) dispatches Head(inbox[p])   *)
(***************************************************************************)
Acquired(p, ch) ==
    HasLock(locks[p], ch) /\ isAcquired(Registered(locks[p], ch))

SelfEmitted(p, n) == opts[p].filtered /\ n.processId = processId[p]

UserEvents(o) == SelectSeq(o, IsUserEvent)

Emitted(o) == SelectSeq(o, LAMBDA x : x.k \in {"emit", "channels.emit"})

\* C6: a notification on a channel outside the lock namespace that is not
\* self-filtered makes the facade emit message exactly when single-listener
\* mode is off or the lock registered for the channel is acquired at that
\* moment; with single-listener mode on and the lock not acquired nothing is
\* emitted
C6_DemuxRule ==
    [][\A p \in Procs :
        ( /\ Deliver(p)
          /\ ~RX_LOCK_CHANNEL(Head(inbox[p]).channel)
          /\ ~SelfEmitted(p, Head(inbox[p])) )
        => LET n == Head(inbox[p])
               pass == ~opts[p].singleListener \/ Acquired(p, n.channel)
           IN  /\ Has(out', Emit("message", n.channel, unpack(n.payload)))
                     <=> pass
               /\ ~pass => Emitted(out') = << >>]_vars

C6_Witness ==
    /\ ev.op = "notification"
    /\ ~RX_LOCK_CHANNEL(ev.ch)
    /\ opts[ev.p].singleListener
    /\ Acquired(ev.p, ev.ch)
    /\ Has(out, Emit("message", ev.ch, unpack(ev.n.payload)))

\* C7: a notification whose channel matches the lock prefix makes the facade
\* emit neither a message event nor a per-channel event, in every mode and
\* lock state
C7_LockChannelDrop ==
    [][\A p \in Procs :
        (Deliver(p) /\ RX_LOCK_CHANNEL(Head(inbox[p]).channel))
        => UserEvents(out') = << >>]_vars

C7_Witness ==
    /\ ev.op = "notification"
    /\ RX_LOCK_CHANNEL(ev.ch)
    /\ Acquired(ev.p, ev.ch)

\* C8: with the filtered option on, a notification whose processId is the
\* connection's own pid produces no message and no per-channel event; with
\* another processId, or with filtered off, it is emitted when the lock
\* prefix test and the single-listener test let it pass
C8_SelfFilter ==
    [][\A p \in Procs :
        Deliver(p)
        => LET n == Head(inbox[p])
               rest == /\ ~RX_LOCK_CHANNEL(n.channel)
                       /\ (~opts[p].singleListener \/ Acquired(p, n.channel))
           IN  /\ (opts[p].filtered /\ n.processId = processId[p])
                     => UserEvents(out') = << >>
               /\ ((~opts[p].filtered \/ n.processId # processId[p]) /\ rest)
                     => UserEvents(out') # << >>]_vars

C8_Witness ==
    /\ ev.op = "notification"
    /\ ~RX_LOCK_CHANNEL(ev.ch)
    /\ opts[ev.p].filtered
    /\ ev.n.processId = processId[ev.p]
    /\ Acquired(ev.p, ev.ch)
    /\ UserEvents(out) = << >>

\* C9: a notification that passes the demux produces exactly one
\* message(channel, payload) event and exactly one per-channel event, the
\* message event first
C9_MessageThenChannel ==
    [][\A p \in Procs :
        ( /\ Deliver(p)
          /\ ~RX_LOCK_CHANNEL(Head(inbox[p]).channel)
          /\ ~SelfEmitted(p, Head(inbox[p]))
          /\ (~opts[p].singleListener \/ Acquired(p, Head(inbox[p]).channel)) )
        => LET n == Head(inbox[p])
           IN  UserEvents(out') =
                  << Emit("message", n.channel, unpack(n.payload)),
                     ChannelsEmit(n.channel, unpack(n.payload)) >>]_vars

C9_Witness ==
    /\ ev.op = "notification"
    /\ Len(UserEvents(out)) = 2
    /\ out[1].name = "message"
    /\ ev.n.payload = "{bad"

\* C10: listen(channel) on a user channel issues LISTEN channel and emits
\* listen(channel) only
\* when acquire() on the channel's lock returned true, i.e. left the lock
\* acquired; when acquire fails no LISTEN channel is issued, nothing is
\* emitted and the call completes; in multi-listener mode LISTEN channel is
\* issued on every call
C10_ListenOnlyWhenAcquired ==
    [][\A p \in Procs : \A c \in UserChannels :
        Listen(p, c)
        => LET acquired == Acquired(p, c)'
           IN  /\ Has(out', Query("LISTEN", c)) <=> acquired
               /\ Has(out', Emit("listen", c, NoArg)) <=> acquired
               /\ ~acquired => Emitted(out') = << >>
               /\ ~opts[p].singleListener => Has(out', Query("LISTEN", c))
               /\ ev'.op = "listen"]_vars

C10_Witness ==
    /\ ev.op = "listen"
    /\ opts[ev.p].singleListener
    /\ HasLock(locks[ev.p], ev.ch)
    /\ ~Acquired(ev.p, ev.ch)
    /\ ~Has(out, Query("LISTEN", ev.ch))
    /\ \E r \in lockTable : r.channel = LockChannel(ev.ch) /\ r.app[1] # ev.p

(***************************************************************************)
(* Lock contract                                                           *)
(***************************************************************************)
OwnRow(p, c) == [channel |-> LockChannel(c), app |-> appName[p]]

\* C11: listen(c) called again on a facade that holds c (lock acquired, row
\* owned, subscribed to c) reuses the lock object and leaves the facade as it
\* was: the registry with the lock still acquired, c still subscribed, the
\* lock table unchanged
C11_ListenIdempotent ==
    [][\A p \in Procs : \A c \in UserChannels :
        ( /\ Listen(p, c)
          /\ HasLock(locks[p], c)
          /\ Registered(locks[p], c).acquired
          /\ c \in subs[p]
          /\ OwnRow(p, c) \in lockTable )
        => ( /\ locks'[p] = locks[p]
             /\ lockTable' = lockTable
             /\ c \in subs'[p] )]_vars

\* the outcome of one acquire() by p on lock channel ch, read between the
\* state before the step and the state after it
AcquireOutcome(p, ch, acquiredAfter) ==
    LET rows == RowsOf(lockTable, ch)
        live == \E r \in rows : r.app \in activity
        mine == [channel |-> ch, app |-> appName[p]]
    IN  IF rows = {} \/ ~live
        THEN acquiredAfter /\ lockTable' = (lockTable \ rows) \cup {mine}
        ELSE ~acquiredAfter /\ lockTable' = lockTable

\* C12: acquire() on a channel, issued on a live connection by the acquire
\* timer or by listen(): with no row it inserts a row owned by the caller's
\* application name and succeeds; with a row it succeeds, overwriting the
\* owner with the caller's application name, exactly when no backend of the
\* activity view bears the row's owner; otherwise it fails and the table is
\* unchanged
C12_AcquireOutcome ==
    [][\A p \in Procs :
        /\ \A i \in 1..MaxLocks :
              (TimerTick(p, i) /\ status[p] = "up")
              => AcquireOutcome(p, locks[p][i].lock.channel,
                                locks'[p][i].lock.acquired)
        /\ \A c \in UserChannels :
              Listen(p, c)
              => AcquireOutcome(p, LockChannel(c),
                                Registered(locks'[p], c).acquired)]_vars

\* the timer of ev.p took the row of a holder whose connection is lost
C12_Witness ==
    /\ ev.op = "tick"
    /\ status[ev.p] = "up"
    /\ Acquired(ev.p, ev.ch)
    /\ OwnRow(ev.p, ev.ch) \in lockTable
    /\ \E q \in Procs \ {ev.p} :
          status[q] = "retrying" /\ Acquired(q, ev.ch)

\* the failures of one acquire() by p on lock channel ch: the connection is
\* down (a connection error) or a live backend bears the owner (LOCKED)
AcquireFailure(p, ch, acquiredAfter) ==
    LET down == status[p] # "up"
        locked == ~down /\ \E r \in RowsOf(lockTable, ch) : r.app \in activity
    IN  /\ (down \/ locked) => ~acquiredAfter
        /\ Has(out', Log(ch)) <=> down
        /\ \A k \in 1..Len(out') : ~IsThrow(out'[k])

\* C13: acquire() never throws: when its query fails, with the LOCKED
\* sentinel or with any other error, the lock is left with acquired = FALSE,
\* which is the value returned; LOCKED is not logged, every other error is
\* logged
C13_AcquireNeverThrows ==
    [][\A p \in Procs :
        /\ \A i \in 1..MaxLocks :
              TimerTick(p, i)
              => AcquireFailure(p, locks[p][i].lock.channel,
                                locks'[p][i].lock.acquired)
        /\ \A c \in UserChannels :
              Listen(p, c)
              => AcquireFailure(p, LockChannel(c),
                                Registered(locks'[p], c).acquired)]_vars

\* the timer fired on a connection that is down: logged, not acquired
C13_Witness ==
    /\ ev.op = "tick"
    /\ status[ev.p] = "retrying"
    /\ Has(out, Log(LockChannel(ev.ch)))
    /\ ~Acquired(ev.p, ev.ch)

\* C14: for every lock object, with or without a unique key, release()
\* called while acquired = FALSE issues no database command and leaves the
\* lock tables and the flag unchanged
C14_ReleaseNoop ==
    [][\A p \in Procs :
        /\ \A i \in 1..MaxLocks :
              (LockRelease(p, i) /\ ~locks[p][i].lock.acquired)
              => (out' = << >> /\ lockTable' = lockTable /\ locks' = locks)
        /\ \A k \in UniqueKeys :
              (UniqueRelease(p, k) /\ ~uniqueLocks[p][k])
              => ( /\ out' = << >>
                   /\ uniqueTable' = uniqueTable
                   /\ uniqueLocks' = uniqueLocks )]_vars

\* C15: when the DELETE issued by release() on an acquired lock fails, here
\* on a connection that is down, in release() called directly or by
\* destroy(), the failure is logged and the lock's acquired flag is FALSE
\* afterwards
C15_ReleaseErrorClearsFlag ==
    [][\A p \in Procs : \A i \in 1..MaxLocks :
        ( /\ LockRelease(p, i) \/ LockDestroy(p, i)
          /\ locks[p][i].lock.acquired
          /\ status[p] # "up" )
        => ( /\ Has(out', Log(locks[p][i].lock.channel))
             /\ ~locks'[p][i].lock.acquired )]_vars

\* C16: onRelease() called on a lock object whose handler is set, also after
\* destroy() followed by init(), fails with an error and changes nothing:
\* the handler set first stays the only one, attached to the connection of an
\* initialised lock exactly as before
C16_SecondOnReleaseFails ==
    [][\A p \in Procs : \A i \in 1..MaxLocks :
        (LockOnRelease(p, i) /\ locks[p][i].lock.notifyHandler)
        => ( /\ out' = <<Throw("TypeError", locks[p][i].lock.channel)>>
             /\ locks' = locks
             /\ locks[p][i].lock.timer > 0 => locks'[p][i].lock.handler > 0 )]_vars

\* onRelease() threw on a lock that went through destroy() and init(): the
\* only lock of the only connected facade is initialised, not acquired, its
\* row is gone and no release notification reached the connection, which
\* is subscribed to the lock channel again
C16_Witness ==
    /\ ev.op = "onRelease"
    /\ Has(out, Throw("TypeError", LockChannel(ev.ch)))
    /\ status[ev.p] = "up"
    /\ \A q \in Procs \ {ev.p} : status[q] = "new"
    /\ Len(locks[ev.p]) = 1
    /\ HasLock(locks[ev.p], ev.ch)
    /\ Registered(locks[ev.p], ev.ch).handler > 0
    /\ Registered(locks[ev.p], ev.ch).timer > 0
    /\ ~Registered(locks[ev.p], ev.ch).acquired
    /\ RowsOf(lockTable, LockChannel(ev.ch)) = {}
    /\ LockChannel(ev.ch) \in subs[ev.p]
    /\ inbox[ev.p] = << >>

(***************************************************************************)
(* Connection supervisor                                                   *)
(***************************************************************************)
IsErrorEvent(x) == x.k = "emit" /\ x.name = "error"

RetryTimer(p) == RetryFire(p) \/ RetryFail(p) \/ RetryExhausted(p)

\* C17: with a finite retryLimit and every connection attempt ended by the
\* transport, the retry timer that raises the terminal error emits exactly
\* one error event, whose message is 'Connect failed after <retryLimit>
\* retries...', emits close after it, and the facade makes no connection
\* attempt afterwards
C17_RetryExhaustion ==
    [][\A p \in Procs :
        /\ (RetryExhausted(p) /\ uuids[p] = 0)
           => ( /\ SelectSeq(out', IsErrorEvent) =
                      <<Emit("error", NoChannel,
                             ConnectFailed(opts[p].retryLimit))>>
                /\ \E i, j \in 1..Len(out') :
                      /\ i < j
                      /\ IsErrorEvent(out'[i])
                      /\ out'[j] = Emit("close", NoChannel, NoArg)
                /\ status'[p] = "closed" )
        /\ status[p] = "closed"
           => ( /\ status'[p] = "closed"
                /\ ev'.p = p => ~Has(out', Call("connect", NoChannel)) )]_vars

\* C18: with retryLimit = L the retry timer starts a reconnect attempt at
\* each fire at which the number of retries made so far is below L
C18_AttemptWhileBelowLimit ==
    [][\A p \in Procs :
        (RetryTimer(p) /\ retry[p] < opts[p].retryLimit)
        => Has(out', Call("connect", NoChannel))]_vars

IsListenCall(x) == x.k = "call" /\ x.name = "listen"

\* C19: the retry timer that reconnects calls listen() exactly once for each
\* key of the registry, every query and event of those calls precedes the
\* reconnect event, which carries the number of retries, and the retry
\* counter is 0 afterwards
C19_RelistenBeforeReconnect ==
    [][\A p \in Procs :
        RetryFire(p)
        => ( /\ SelectSeq(out', IsListenCall) =
                   [i \in 1..Len(locks[p]) |->
                       Call("listen", locks[p][i].key)]
             /\ out'[Len(out')] =
                   Emit("reconnect", NoChannel, Number(retry[p] + 1))
             /\ \A k \in 1..(Len(out') - 1) : out'[k].name # "reconnect"
             /\ retry'[p] = 0 )]_vars

\* a reconnect at the second retry of a facade whose registry has two keys
C19_Witness ==
    /\ ev.op = "reconnect"
    /\ Len(locks[ev.p]) = 2
    /\ Has(out, Emit("reconnect", NoChannel, Number(2)))
    /\ Len(SelectSeq(out, IsListenCall)) = 2
    /\ retry[ev.p] = 0

\* C20: after a reconnect the new connection is subscribed to the lock
\* channel of every lock of the registry, so that the release handler of a
\* lock that is not acquired is triggered when the row is deleted later
C20_LockChannelsAfterReconnect ==
    [][\A p \in Procs :
        RetryFire(p)
        => \A i \in IpLocks(p) : locks[p][i].lock.channel \in subs'[p]]_vars

\* the facade of p was closed by close() or destroy()
IsClosed(p) == status[p] \in {"closed", "closedTimer"}

\* C21: after close() the supervisor of the facade makes no connection
\* attempt: no retry timer of a closed facade fires and calls connect(), also
\* when the timer was armed before close() was called
C21_NoAttemptAfterClose ==
    [][\A p \in Procs :
        IsClosed(p)
        => ( /\ ~(RetryFire(p) \/ RetryFail(p))
             /\ ev'.p = p => ~Has(out', Call("connect", NoChannel)) )]_vars

IsConnectEvent(x) == x = Emit("connect", NoChannel, NoArg)

\* C22: a step that establishes the transport connection of a facade emits
\* connect exactly once, also when connection attempts failed before it
C22_ConnectOnce ==
    [][\A p \in Procs :
        (status[p] # "up" /\ status'[p] = "up")
        => Len(SelectSeq(out', IsConnectEvent)) = 1]_vars

\* C23: on a facade that is connected, after close() and connect() as before
\* them, a notification on a user channel whose lock is acquired is emitted
\* as a message event, and the release handler of every channel lock of the
\* registry is attached to the transport
C23_ReuseAfterClose ==
    [][\A p \in Procs :
        /\ ( /\ Deliver(p)
             /\ ~RX_LOCK_CHANNEL(Head(inbox[p]).channel)
             /\ ~SelfEmitted(p, Head(inbox[p]))
             /\ Acquired(p, Head(inbox[p]).channel) )
           => Has(out', Emit("message", Head(inbox[p]).channel,
                             unpack(Head(inbox[p]).payload)))
        /\ status'[p] = "up"
           => \A i \in 1..Len(locks'[p]) :
                 locks'[p][i].lock.notifyHandler
                    => locks'[p][i].lock.handler > 0
      ]_vars

\* C24: with the executionLock option on, a notification on a channel outside
\* the lock namespace that is not self-filtered makes the facade emit message,
\* whether the lock of the channel is acquired or not
C24_ExecutionLockNeverDrops ==
    [][\A p \in Procs :
        ( /\ Deliver(p)
          /\ opts[p].executionLock
          /\ ~RX_LOCK_CHANNEL(Head(inbox[p]).channel)
          /\ ~SelfEmitted(p, Head(inbox[p])) )
        => Has(out', Emit("message", Head(inbox[p]).channel,
                          unpack(Head(inbox[p]).payload)))]_vars

\* Object.keys(this.locks)
Keys(reg) == { reg[i].key : i \in 1..Len(reg) }

\* C25: a key enters the registry of a facade only in a listen() of that key,
\* leaves it in an unlisten() of that key, and the registry is empty after
\* destroy()
C25_RegistryLifecycle ==
    [][\A p \in Procs :
        /\ \A k \in Keys(locks'[p]) \ Keys(locks[p]) :
              ev' = Event("listen", p, k, NoNotification)
        /\ (ev' = Event("unlisten", p, ev'.ch, NoNotification)
               /\ locks'[p] # locks[p])
           => ev'.ch \notin Keys(locks'[p])
        /\ (ev'.op = "destroy" /\ ev'.p = p /\ status'[p] # status[p])
           => locks'[p] = << >>]_vars

\* C26: unlisten(c) on a facade whose registry has an entry for c leaves the
\* registry without the entry and the lock table without a row of the process
\* for c, emits unlisten, and while the registry has no entry for c the
\* process gets a row for c only in a listen(c)
C26_UnlistenDestroysLock ==
    [][\A p \in Procs, c \in UserChannels :
        /\ (Unlisten(p, c) /\ HasLock(locks[p], c))
           => ( /\ c \notin Keys(locks'[p])
                /\ Has(out', Emit("unlisten", c, NoArg))
                /\ OwnRow(p, c) \notin lockTable' )
        /\ ( /\ c \notin Keys(locks[p])
             /\ OwnRow(p, c) \notin lockTable
             /\ [channel |-> LockChannel(c), app |-> appName'[p]]
                   \in lockTable' )
           => ev' = Event("listen", p, c, NoNotification)]_vars

IsLog(x) == x.k = "log"

\* C27: a termination signal calls destroy() on every lock of the roster and
\* the process exits, with code 1 when a destroy() met an error and with
\* code 0 otherwise
C27_ExitCode ==
    [][\A p \in Procs :
        Signal(p)
        => ( /\ status'[p] = "exited"
             /\ \A k \in 1..Len(instances[p]) :
                   Has(out', Query("UNLISTEN",
                                   LockChannel(StripLockPrefix(instances[p][k]))))
             /\ Has(out', Exit(IF \E k \in 1..Len(out') : IsLog(out'[k])
                               THEN 1 ELSE 0)) )]_vars

\* C28: destroy() of a facade leaves every channel lock of its registry
\* released: the process has no row for the lock's channel, the flag is
\* false, the timer is cancelled, the lock is not in the roster, and no
\* command of a lock was rejected by the transport
C28_DestroyReleasesLocks ==
    [][\A p \in Procs :
        Destroy(p)
        => ( /\ \A i \in IpLocks(p) :
                   /\ ~locks'[p][i].lock.acquired
                   /\ locks'[p][i].lock.timer = 0
                   /\ ~InRoster(instances'[p], locks'[p][i].key)
                   /\ [channel |-> locks[p][i].lock.channel,
                       app |-> appName[p]] \notin lockTable'
             /\ \A k \in 1..Len(out') : ~IsLog(out'[k]) )]_vars

\* the number of times key is in the roster
Count(roster, key) == Cardinality({ k \in 1..Len(roster) : roster[k] = key })

\* C29: no lock is in the roster of its process more than once, and a lock
\* that init() initialises again after destroy() is in the roster
C29_RosterNoDuplicates ==
    [][\A p \in Procs :
        /\ \A i \in 1..Len(locks'[p]) :
              Count(instances'[p], locks'[p][i].key) <= 1
        /\ \A i \in 1..Len(locks[p]) :
              (LockInit(p, i) /\ ~Has(out', Throw("init", locks[p][i].lock.channel)))
              => Count(instances'[p], locks[p][i].key) = 1]_vars

C29_Witness ==
    /\ ev.op = "init"
    /\ status[ev.p] = "up"
    /\ Len(instances[ev.p]) = 2
    /\ \A i \in 1..Len(locks[ev.p]) : Count(instances[ev.p], locks[ev.p][i].key) = 1
    /\ instances[ev.p][2] = locks[ev.p][1].key

IsDelete(x) == x.k = "query" /\ x.name = "DELETE"

\* the acquired flags of the registry, by key
Flags(reg) == { <<reg[i].key, isAcquired(reg[i].lock)>> : i \in 1..Len(reg) }

\* C30: close() issues no DELETE and leaves the lock table, the keys of the
\* registry and the acquired flag of every lock as they were
C30_CloseReleasesNothing ==
    [][\A p \in Procs :
        Close(p)
        => ( /\ \A k \in 1..Len(out') : ~IsDelete(out'[k])
             /\ lockTable' = lockTable
             /\ Flags(locks'[p]) = Flags(locks[p])
             /\ [i \in 1..Len(locks'[p]) |-> locks'[p][i].key]
                   = [i \in 1..Len(locks[p]) |-> locks[p][i].key] )]_vars

C30_Witness ==
    /\ ev.op = "close"
    /\ status[ev.p] = "closed"
    /\ \E i \in IpLocks(ev.p) :
          /\ locks[ev.p][i].lock.acquired
          /\ [channel |-> locks[ev.p][i].lock.channel, app |-> appName[ev.p]]
                \in lockTable

\* C32: in single-listener mode a connected facade whose registry has a lock
\* for user channel c with the acquired flag set is subscribed to c
C32_AcquiredIsSubscribed ==
    \A p \in Procs, c \in UserChannels :
        ( /\ status[p] = "up"
          /\ opts[p].singleListener
          /\ HasLock(locks[p], c)
          /\ Registered(locks[p], c).kind = "PgIpLock"
          /\ Registered(locks[p], c).acquired )
        => c \in subs[p]

\* the steps of release() and destroy() of a lock
IsReleaseStep(e) == e.op \in {"release", "destroy", "unlisten", "uniqueRelease"}

\* the owner of row r is an application name that process p has generated
OwnedBy(r, p) == r.app # NoApp /\ r.app[1] = p

\* C34: a release() or destroy() of a lock of process p removes from the
\* lock tables only rows whose owner is an application name of p
C34_DeleteOwnRowOnly ==
    [][\A p \in Procs :
        (IsReleaseStep(ev') /\ ev'.p = p)
        => /\ \A r \in lockTable \ lockTable' : OwnedBy(r, p)
           /\ \A r \in uniqueTable \ uniqueTable' : OwnedBy(r, p)]_vars

\* C36: destroy() of a lock changes the roster for that lock only: every
\* other lock is in the roster as often as before, and when the lock is not
\* in the roster the roster stays as it is
C36_DestroyRemovesOnlyItself ==
    [][\A p \in Procs, i \in 1..MaxLocks :
        LockDestroy(p, i)
        => /\ \A j \in 1..Len(locks[p]) :
                 j # i => Count(instances'[p], locks[p][j].key)
                            = Count(instances[p], locks[p][j].key)
           /\ ~InRoster(instances[p], locks[p][i].key)
                 => instances'[p] = instances[p]]_vars

IsInsert(x) == x.k = "query" /\ x.name = "INSERT"

C40_HandlerAttachedOnce ==
    [][\A p \in Procs :
        /\ \A i \in 1..Len(locks'[p]) : locks'[p][i].lock.handler <= 1
        /\ (Deliver(p) /\ RX_LOCK_CHANNEL(Head(inbox[p]).channel))
           => Len(SelectSeq(out', IsListenCall))
                 <= Cardinality({ i \in IpLocks(p) :
                        locks[p][i].lock.channel = Head(inbox[p]).channel })
      ]_vars

\* C33: at most one retry timer of a facade is pending, so that the retry
\* counter is incremented once for a connection loss
C33_OneTimerPerLoss == \A p \in Procs : client[p].timers <= 1

(***************************************************************************)
(* Overlapping listen() calls                                              *)
(***************************************************************************)
NextOverlap ==
    \/ \E p \in Procs : Connect(p)
    \/ \E p \in Procs, c \in UserChannels : Listen(p, c)
    \/ \E p \in Procs, c \in UserChannels : ListenOverlap(p, c)
    \/ \E p \in Procs, c \in UserChannels : Unlisten(p, c)
    \/ \E p \in Procs, i \in 1..MaxLocks : TimerTick(p, i)
    \/ \E p \in Procs, j \in 1..MaxOrphans : OrphanTick(p, j)
    \/ \E p \in Procs : Deliver(p)

SpecOverlap == Init /\ [][NextOverlap]_vars

\* C35: no lock object with an armed acquire timer exists outside the
\* registry of its facade, whatever listen() calls overlap
C35_OneLockPerChannel ==
    \A p \in Procs : \A j \in 1..Len(orphans[p]) :
        orphans[p][j].lock.timer = 0

(***************************************************************************)
(* unlistenAll()                                                           *)
(***************************************************************************)
NextUnlistenAll ==
    \/ \E p \in Procs : Connect(p)
    \/ \E p \in Procs, c \in UserChannels : Listen(p, c)
    \/ \E p \in Procs : UnlistenAll(p)
    \/ \E p \in Procs, i \in 1..MaxLocks : TimerTick(p, i)
    \/ \E p \in Procs, j \in 1..MaxOrphans : OrphanTick(p, j)
    \/ \E p \in Procs : Deliver(p)

SpecUnlistenAll == Init /\ [][NextUnlistenAll]_vars

HeldBy(table, p) == { r \in table : OwnedBy(r, p) }

\* C38: unlistenAll() leaves the registry empty and no row of the process
\* on a channel that was registered, and while the registry stays empty
\* (no listen() has created a lock) the process acquires no row
C38_UnlistenAllIsFinal ==
    [][\A p \in Procs :
          /\ (ev'.op = "unlistenAll" /\ ev'.p = p) =>
                /\ locks'[p] = << >>
                /\ \A i \in 1..Len(locks[p]) :
                      ~\E r \in HeldBy(lockTable', p) :
                          r.channel = locks[p][i].lock.channel
          /\ (locks[p] = << >> /\ locks'[p] = << >>) =>
                HeldBy(lockTable', p) \subseteq HeldBy(lockTable, p)]_vars

(***************************************************************************)
(* Facades of one process.  PgIpLock.instances is a static array: the      *)
(* facades of a process share it, instances[p] is the part of it that the  *)
(* locks of facade p occupy.                                               *)
(***************************************************************************)
\* lock.destroy() of the locks that facade q has in the shared roster; the
\* queries of these locks run on the connection of q
RECURSIVE DestroyOthers(_, _)
DestroyOthers(W, qs) ==
    IF qs = {} THEN W
    ELSE LET q == CHOOSE x \in qs : TRUE
             S == [Context(q, W.box) EXCEPT
                      !.table = W.table, !.subs = W.subs,
                      !.status = W.status, !.out = W.out]
             R == DestroyAll(S, S.instances)
         IN  DestroyOthers([W EXCEPT !.locks[q] = R.locks,
                                     !.instances[q] = R.instances,
                                     !.orphans[q] = R.orphans,
                                     !.table = R.table, !.subs = R.subs,
                                     !.box = R.box, !.out = R.out],
                           qs \ {q})

\* PgPubSub.destroy() of facade p when every facade runs in the process of
\* p: PgIpLock.destroy() maps lock.destroy() over the whole roster
DestroyShared(p) ==
    /\ status[p] \in {"up", "retrying"}
    /\ \A q \in Procs \ {p} : \A i \in 1..Len(locks[q]) :
          RoomFor(inbox, subs, [status EXCEPT ![p] = Ended(p)],
                  locks[q][i].lock.channel)
    /\ status' = [status EXCEPT ![p] = Ended(p)]
    /\ LET S == [EndedContext(p) EXCEPT
                    !.out = <<Call("destroy", NoChannel),
                              Call("close", NoChannel)>>]
           R == DestroyAll(S, S.instances)
           P == [close(R) EXCEPT !.out = R.out]
           W == DestroyOthers(
                    [locks |-> [locks EXCEPT ![p] = P.locks],
                     instances |-> [instances EXCEPT ![p] = P.instances],
                     orphans |-> [orphans EXCEPT ![p] = P.orphans],
                     table |-> P.table, subs |-> P.subs, box |-> P.box,
                     status |-> P.status, out |-> P.out],
                    Procs \ {p})
       IN  /\ locks' = W.locks
           /\ instances' = W.instances
           /\ orphans' = W.orphans
           /\ client' = [client EXCEPT ![p] = P.client]
           /\ lockTable' = W.table
           /\ subs' = W.subs
           /\ inbox' = W.box
           /\ out' = W.out \o <<Emit("close", NoChannel, NoArg)>>
           /\ ev' = Event("destroy", p, NoChannel, NoNotification)
    /\ UNCHANGED <<opts, retry, uuids, appName, processId, activity,
                   uniqueTable, uniqueLocks>>

NextShared ==
    \/ \E p \in Procs : Connect(p)
    \/ \E p \in Procs, c \in UserChannels : Listen(p, c)
    \/ \E p \in Procs, i \in 1..MaxLocks : TimerTick(p, i)
    \/ \E p \in Procs : DestroyShared(p)
    \/ \E p \in Procs, i \in 1..MaxLocks : LockRelease(p, i)
    \/ \E p \in Procs : Deliver(p)

SpecShared == Init /\ [][NextShared]_vars

\* C37: destroy() of a facade changes no lock of another facade: its lock
\* objects (flag, timer, handler), its roster entries and its rows stay
C37_DestroyLeavesOtherFacades ==
    [][\A p \in Procs, q \in Procs :
          (ev'.op = "destroy" /\ ev'.ch = NoChannel /\ ev'.p = p /\ q # p)
              => /\ locks'[q] = locks[q]
                 /\ instances'[q] = instances[q]
                 /\ HeldBy(lockTable', q) = HeldBy(lockTable, q)]_vars

(***************************************************************************)
(* Identity of the connections                                             *)
(***************************************************************************)
NextIdentity ==
    \/ \E p \in Procs : Connect(p)
    \/ \E p \in Procs : ConnLost(p)
    \/ \E p \in Procs : RetryFire(p)
    \/ \E a \in activity : Reap(a)
    \/ \E p \in Procs, c \in UserChannels : Listen(p, c)
    \/ \E p \in Procs, i \in 1..MaxLocks : TimerTick(p, i)
    \/ \E p \in Procs, i \in 1..MaxLocks : LockRelease(p, i)

SpecIdentity == Init /\ [][NextIdentity]_vars

====
